---- MODULE Spec2Model ----
(***************************************************************************)
(* WanderLust-AI: the LangGraph travel-planning workflow of src/main.py    *)
(* (keyword synthesizer -> place search -> itinerary composer -> feedback  *)
(* gate), its two HTTP operations start_plan / resume_plan, the geocoding  *)
(* tool query_places_nominatim, and the Streamlit caller of                *)
(* src/frontend.py that holds the TripState between requests.              *)
(*                                                                         *)
(* Units: importance is in hundredths (75 stands for 0.75), distances and  *)
(* coordinates are whole kilometres on a line (geodesic = |a - b|).        *)
(***************************************************************************)
EXTENDS Integers, Sequences, FiniteSets, TLC

VARIABLES
    sidebar,      \* frontend.py:61-72  the sidebar widgets (trip details)
    session,      \* frontend.py:77-80  st.session_state: itinerary, current_state
    held,         \* history: session as it was when the request was sent
    request,      \* the JSON body of the request in flight / last sent
    response,     \* the HTTP response of the last request
    pc,           \* control position: idle, a graph node, return, error
    state,        \* the graph state threaded through the nodes (app.stream)
    final_state,  \* main.py:285/300  the handler's accumulated final_state
    trace,        \* nodes executed so far in the current run, in order
    llm,          \* last exchange with the generators: what the prompts asked, what came
                  \* back, and the node whose generator call raised
    all_places,   \* main.py:196  places collected from the resolver in this pass
    tool,         \* one resolver call: its arguments, the geocoder's answers, output, events
    conc          \* main.py:280-306  the handler invocations running at once in the
                  \* server's thread pool, each with its own locals

vars == <<sidebar, session, held, request, response, pc, state, final_state,
          trace, llm, all_places, tool, conc>>

----------------------------------------------------------------------------
(* Bounds of the model *)

MaxAvoid == 2        \* places_to_avoid is not grown beyond this length
MaxToolCalls == 2    \* tool calls the tool-invoking generator returns per pass
MaxCandidates == 2   \* candidates the geocoder holds for a global search
MaxPlaces == 3       \* places collected in one pass, when the dedup is checked alone

(* Program constants *)

MinDuration == 1
MaxDuration == 14
MinKeywords == 10
PerDay == 4
MegacityImportance == 75
MegacityRadius == 30
RegionalRadius == 200
DefaultImportance == 50
GlobalLimit == 5

(* Values *)

None == "<None>"
END == "__end__"
Names == {"Fushimi Inari", "Kinkaku-ji"}
Feedbacks == {"", "more food spots"}
Drafts == {"", "# Day 1"}
Kyoto == <<"Kyoto", "Japan">>
London == <<"London">>
LondonUK == <<"London", "UK">>
Fields == {"destination", "duration_days", "vibe", "user_feedback",
           "places_to_avoid", "keywords", "search_results", "itinerary_draft"}
Order == <<"vibe_interpreter", "search_agent", "itinerary_agent", "await_feedback">>

Range(s) == {s[i] : i \in 1..Len(s)}
Max(a, b) == IF a >= b THEN a ELSE b
Min(a, b) == IF a <= b THEN a ELSE b
Abs(a) == IF a >= 0 THEN a ELSE 0 - a

(* Python truthiness of an Optional[str] / str *)
Truthy(x) == x # None /\ x # ""

(* dict.get(key) *)
Get(d, k) == IF k \in DOMAIN d THEN d[k] ELSE None

(* dict.update(out): shallow field replacement *)
Update(d, out) ==
    [k \in (DOMAIN d) \cup (DOMAIN out) |-> IF k \in DOMAIN out THEN out[k] ELSE d[k]]

EmptyDict == [k \in {} |-> None]

----------------------------------------------------------------------------
(* The geocoder (geopy Nominatim) as the resolver sees it.  A location is   *)
(* an address and a coordinate; an answer is ok / none / exc (exception).   *)

Loc(a, c) == [address |-> a, coord |-> c]
NoLoc == Loc("", 0)

geodesic(a, b) == Abs(a - b)

(* the comparison made inclusive *)
radius_limit_inclusive(importance) ==
    IF importance >= MegacityImportance THEN MegacityRadius ELSE RegionalRadius

(* main.py:68-73 *)
radius_limit(importance) ==
    IF importance > MegacityImportance THEN MegacityRadius ELSE RegionalRadius

(* main.py:63  city_loc.raw.get("importance", 0.5) *)
raw_importance(city) ==
    IF city.has_importance THEN city.importance ELSE DefaultImportance

(* geolocator.geocode(query, exactly_one=False, limit=5): at most limit matches *)
geocode_many(matches, limit) == SubSeq(matches, 1, Min(limit, Len(matches)))

(* the nearest candidate within the radius instead of the first *)
RECURSIVE first_within_closest(_, _, _, _)
first_within_closest(candidates, i, city_coords, limit) ==
    IF i > Len(candidates) THEN [found |-> FALSE, loc |-> NoLoc]
    ELSE LET rest == first_within_closest(candidates, i + 1, city_coords, limit)
             d == geodesic(city_coords, candidates[i].coord)
         IN  IF d <= limit
                /\ (~rest.found \/ d <= geodesic(city_coords, rest.loc.coord))
             THEN [found |-> TRUE, loc |-> candidates[i]]
             ELSE rest

(* main.py:88-98  the first candidate within the radius, or NoLoc *)
RECURSIVE first_within(_, _, _, _)
first_within(candidates, i, city_coords, limit) ==
    IF i > Len(candidates) THEN [found |-> FALSE, loc |-> NoLoc]
    ELSE IF geodesic(city_coords, candidates[i].coord) <= limit
         THEN [found |-> TRUE, loc |-> candidates[i]]
         ELSE first_within(candidates, i + 1, city_coords, limit)

Place(query, loc) == [name |-> query, address |-> loc.address, coordinates |-> loc.coord]

(* the distance filter applied to the strict match as well *)
query_places_nominatim_checked(query, location_name, g) ==
    LET log1 == <<"geocode_city">>
        log2 == log1 \o <<"sleep", "geocode_strict">>
        log3 == log2 \o <<"sleep", "geocode_global">>
        limit == radius_limit(raw_importance(g.city))
        candidates == geocode_many(g.global.matches, GlobalLimit)
        hit == first_within(candidates, 1, g.city.coord, limit)
    IN  IF g.city.kind # "ok" THEN [output |-> <<>>, log |-> log1]
        ELSE IF g.strict.kind = "exc" THEN [output |-> <<>>, log |-> log2]
        ELSE IF g.strict.kind = "ok"
                /\ geodesic(g.city.coord, g.strict.loc.coord) <= limit
             THEN [output |-> <<Place(query, g.strict.loc)>>, log |-> log2]
        ELSE IF g.global.kind = "exc" THEN [output |-> <<>>, log |-> log3]
        ELSE IF hit.found THEN [output |-> <<Place(query, hit.loc)>>, log |-> log3]
        ELSE [output |-> <<>>, log |-> log3]

(* main.py:47-112  query_places_nominatim: output list and the events issued *)
query_places_nominatim(query, location_name, g) ==
    LET log1 == <<"geocode_city">>
        log2 == log1 \o <<"sleep", "geocode_strict">>
        log3 == log2 \o <<"sleep", "geocode_global">>
        limit == radius_limit(raw_importance(g.city))
        candidates == geocode_many(g.global.matches, GlobalLimit)
        hit == first_within(candidates, 1, g.city.coord, limit)
    IN  IF g.city.kind # "ok" THEN [output |-> <<>>, log |-> log1]
        ELSE IF g.strict.kind = "exc" THEN [output |-> <<>>, log |-> log2]
        ELSE IF g.strict.kind = "ok"
             THEN [output |-> <<Place(query, g.strict.loc)>>, log |-> log2]
        ELSE IF g.global.kind = "exc" THEN [output |-> <<>>, log |-> log3]
        ELSE IF hit.found THEN [output |-> <<Place(query, hit.loc)>>, log |-> log3]
        ELSE [output |-> <<>>, log |-> log3]

Geo(city, strict, global) == [city |-> city, strict |-> strict, global |-> global]
City(kind, coord, has, imp) ==
    [kind |-> kind, coord |-> coord, has_importance |-> has, importance |-> imp]
Strict(kind, loc) == [kind |-> kind, loc |-> loc]
Global(kind, matches) == [kind |-> kind, matches |-> matches]

NoCity == City("none", 0, FALSE, 0)
NoStrict == Strict("none", NoLoc)
NoGlobal == Global("ok", <<>>)

(* The answers the geocoder gives inside a full workflow pass *)
GeoSmall ==
    { Geo(City("exc", 0, FALSE, 0), NoStrict, NoGlobal),
      Geo(City("ok", 0, TRUE, 90), Strict("ok", Loc("Kyoto", 5)), NoGlobal),
      Geo(City("ok", 0, TRUE, 90), NoStrict, Global("ok", <<Loc("Nara", 45)>>)) }

----------------------------------------------------------------------------
(* The agent nodes, main.py:150-248 *)

(* the floor of ten terms left out *)
target_count_nofloor(duration_days) == duration_days * PerDay

(* main.py:158 *)
target_count(duration_days) == Max(MinKeywords, duration_days * PerDay)

(* The structured-output generator answers with a list of any length; the  *)
(* lists tried are the empty one, one of the requested length and one that *)
(* is a term longer.                                                       *)
KeywordList(n) == [i \in 1..n |-> IF i % 2 = 1 THEN "Fushimi Inari" ELSE "Kinkaku-ji"]
GeneratedKeywords(asked) == {KeywordList(0), KeywordList(asked), KeywordList(asked + 1)}

(* the generator's list cut by one *)
vibe_interpreter_agent_trim(s, keywords) ==
    [keywords |-> SubSeq(keywords, 1, Len(keywords) - 1)]

(* main.py:152-178  the node's output for a generator response *)
vibe_interpreter_agent(s, keywords) == [keywords |-> keywords]

(* main.py:183-186 *)
location_fixed(destination) ==
    IF "London" \in Range(destination) /\ "UK" \notin Range(destination)
    THEN LondonUK ELSE destination

ToolCall(name, query, location_name) ==
    [name |-> name, args |-> [query |-> query, location_name |-> location_name]]

(* The tool calls the tool-invoking generator may elect to make, each with  *)
(* the answers the geocoder gives while it runs                            *)
ToolCalls(location_name) ==
    {[call |-> ToolCall("query_places_nominatim", q, location_name), answers |-> g] :
        q \in Names, g \in GeoSmall}
    \cup {[call |-> ToolCall("get_ors_directions", "Fushimi Inari", location_name),
           answers |-> Geo(NoCity, NoStrict, NoGlobal)]}

(* main.py:196-202  run the resolver for every tool call, collect the lists *)
RECURSIVE collect(_, _)
collect(tool_calls, i) ==
    IF i > Len(tool_calls) THEN <<>>
    ELSE (IF tool_calls[i].call.name = "query_places_nominatim"
          THEN query_places_nominatim(tool_calls[i].call.args.query,
                                      tool_calls[i].call.args.location_name,
                                      tool_calls[i].answers).output
          ELSE <<>>) \o collect(tool_calls, i + 1)

(* a kept name is never remembered *)
RECURSIVE final_places_unseen(_, _, _, _, _)
final_places_unseen(places, i, seen, final, places_to_avoid) ==
    IF i > Len(places) THEN final
    ELSE IF places[i].name \notin seen /\ places[i].name \notin Range(places_to_avoid)
         THEN final_places_unseen(places, i + 1, seen,
                                  Append(final, places[i]), places_to_avoid)
         ELSE final_places_unseen(places, i + 1, seen, final, places_to_avoid)

(* places_to_avoid is not consulted *)
RECURSIVE final_places_ignoring_avoid(_, _, _, _, _)
final_places_ignoring_avoid(places, i, seen, final, places_to_avoid) ==
    IF i > Len(places) THEN final
    ELSE IF places[i].name \notin seen
         THEN final_places_ignoring_avoid(places, i + 1, seen \cup {places[i].name},
                                          Append(final, places[i]), places_to_avoid)
         ELSE final_places_ignoring_avoid(places, i + 1, seen, final, places_to_avoid)

(* a later place of a kept name takes the earlier one's slot *)
RECURSIVE final_places_last_wins(_, _, _, _, _)
final_places_last_wins(places, i, seen, final, places_to_avoid) ==
    IF i > Len(places) THEN final
    ELSE IF places[i].name \in Range(places_to_avoid)
         THEN final_places_last_wins(places, i + 1, seen, final, places_to_avoid)
    ELSE IF places[i].name \notin seen
         THEN final_places_last_wins(places, i + 1, seen \cup {places[i].name},
                                     Append(final, places[i]), places_to_avoid)
         ELSE final_places_last_wins(
                  places, i + 1, seen,
                  [k \in 1..Len(final) |->
                      IF final[k].name = places[i].name THEN places[i] ELSE final[k]],
                  places_to_avoid)

(* main.py:204-210  deduplicate by name, drop the places to avoid *)
RECURSIVE final_places(_, _, _, _, _)
final_places(places, i, seen, final, places_to_avoid) ==
    IF i > Len(places) THEN final
    ELSE IF places[i].name \notin seen /\ places[i].name \notin Range(places_to_avoid)
         THEN final_places(places, i + 1, seen \cup {places[i].name},
                           Append(final, places[i]), places_to_avoid)
         ELSE final_places(places, i + 1, seen, final, places_to_avoid)

(* the normalised destination is written back with the results *)
search_agent_fixing_destination(s, places) ==
    [search_results |-> final_places(places, 1, {}, <<>>, s.places_to_avoid),
     destination |-> location_fixed(s.destination)]

(* main.py:180-212  the node's output for the places collected *)
search_agent(s, places) ==
    [search_results |-> final_places(places, 1, {}, <<>>, s.places_to_avoid)]

(* main.py:214-237 *)
itinerary_agent(s, content) == [itinerary_draft |-> content]

(* the gate leaves user_feedback as it found it *)
await_feedback_keep(s) == [user_feedback |-> Get(s, "user_feedback")]

(* main.py:241-242 *)
await_feedback(s) == [user_feedback |-> None]

(* main.py:244-248 *)
check_feedback(s) ==
    IF Truthy(Get(s, "user_feedback")) THEN "vibe_interpreter" ELSE END

----------------------------------------------------------------------------
(* The two operations, main.py:280-306, and their caller, frontend.py *)

(* frontend.py:85-90  the start payload; current_state holds the PlanRequest fields *)
start_payload(sb) ==
    [op |-> "start",
     current_state |-> [destination |-> sb.destination, duration_days |-> sb.duration_days,
                        vibe |-> sb.vibe, places_to_avoid |-> sb.avoid],
     user_feedback |-> None, place_to_avoid |-> None]

(* frontend.py:123-127  the resume payload *)
resume_payload(ss, feedback_text, avoid_new) ==
    [op |-> "resume", current_state |-> ss.current_state,
     user_feedback |-> feedback_text,
     place_to_avoid |-> IF Truthy(avoid_new) THEN avoid_new ELSE None]

(* main.py:282-283 *)
initial_input(req) == Update(req.current_state, [user_feedback |-> "Start"])

(* the new entry replaces the list instead of being appended *)
resume_state_replace(req) ==
    LET s1 == Update(req.current_state, [user_feedback |-> req.user_feedback])
    IN  IF Truthy(req.place_to_avoid)
        THEN Update(s1, [places_to_avoid |-> <<req.place_to_avoid>>])
        ELSE s1

(* the feedback stored under a key of its own *)
resume_state_new_key(req) ==
    LET s1 == Update(req.current_state, [feedback |-> req.user_feedback])
    IN  IF Truthy(req.place_to_avoid)
        THEN Update(s1, [places_to_avoid |->
                            Append(s1.places_to_avoid, req.place_to_avoid)])
        ELSE s1

(* the entry is added only when the list does not hold it yet *)
resume_state_set(req) ==
    LET s1 == Update(req.current_state, [user_feedback |-> req.user_feedback])
    IN  IF Truthy(req.place_to_avoid)
           /\ req.place_to_avoid \notin Range(s1.places_to_avoid)
        THEN Update(s1, [places_to_avoid |->
                            Append(s1.places_to_avoid, req.place_to_avoid)])
        ELSE s1

(* main.py:295-298 *)
resume_state(req) ==
    LET s1 == Update(req.current_state, [user_feedback |-> req.user_feedback])
    IN  IF Truthy(req.place_to_avoid)
        THEN Update(s1, [places_to_avoid |->
                            Append(s1.places_to_avoid, req.place_to_avoid)])
        ELSE s1

(* main.py:291 / 306 *)
plan_response(fs) ==
    [status |-> 200, itinerary_draft |-> Get(fs, "itinerary_draft"), current_state |-> fs]

(* the handler catches the exception and returns what it has accumulated *)
error_response_partial ==
    [status |-> 200, itinerary_draft |-> Get(final_state, "itinerary_draft"),
     current_state |-> final_state]

(* an uncaught exception in the handler: the server's error response *)
error_response == [status |-> 500, itinerary_draft |-> None, current_state |-> EmptyDict]
no_response == [status |-> 0, itinerary_draft |-> None, current_state |-> EmptyDict]

(* the caller's current_state is the object the handler worked on *)
on_response_shared(ss, resp) ==
    IF resp.status = 200
    THEN [itinerary |-> resp.itinerary_draft, current_state |-> resp.current_state]
    ELSE [itinerary |-> ss.itinerary, current_state |-> final_state]

(* frontend.py:94-100 / 131-138  what the caller keeps after a response *)
on_response(ss, resp) ==
    IF resp.status = 200
    THEN [itinerary |-> resp.itinerary_draft, current_state |-> resp.current_state]
    ELSE ss

no_request ==
    [op |-> "none", current_state |-> EmptyDict, user_feedback |-> None,
     place_to_avoid |-> None]
NoLlm == [target_count |-> 0, keywords |-> <<>>, location_name |-> <<>>, failed |-> ""]
NoTool ==
    [args |-> [query |-> "", location_name |-> <<>>],
     geo |-> Geo(NoCity, NoStrict, NoGlobal), output |-> <<>>, log |-> <<>>,
     called |-> FALSE, elected |-> <<>>, pending |-> <<>>]
NoSession == [itinerary |-> "", current_state |-> EmptyDict]
NoConc == <<>>

(* The trips the sidebar can hold *)
Sidebars ==
    { [destination |-> d[1], duration_days |-> d[2], vibe |-> "zen gardens", avoid |-> d[3]] :
        d \in {<<Kyoto, 2, <<>>>>, <<Kyoto, 3, <<"Kinkaku-ji">>>>, <<London, 3, <<>>>>} }

Idle ==
    /\ session = NoSession /\ held = NoSession
    /\ request = no_request /\ response = no_response
    /\ trace = <<>> /\ llm = NoLlm /\ all_places = <<>>

Init ==
    /\ sidebar \in Sidebars
    /\ Idle
    /\ pc = "idle"
    /\ state = EmptyDict /\ final_state = EmptyDict
    /\ tool = NoTool
    /\ conc = NoConc

(* frontend.py:83-93 and main.py:280-286  "Plan My Trip" *)
StartPlan ==
    /\ pc = "idle"
    /\ LET req == start_payload(sidebar)
       IN  /\ request' = req
           /\ state' = initial_input(req)
           /\ final_state' = initial_input(req)
    /\ held' = session
    /\ response' = no_response
    /\ trace' = <<>> /\ llm' = NoLlm /\ all_places' = <<>>
    /\ pc' = "vibe_interpreter"
    /\ UNCHANGED <<conc, sidebar, session, tool>>

(* frontend.py:105-130 and main.py:293-301  "Update Itinerary" *)
ResumePlan ==
    /\ pc = "idle"
    /\ Truthy(session.itinerary)
    /\ \E feedback_text \in Feedbacks, avoid_new \in Names \cup {""} :
          /\ Truthy(avoid_new) =>
                Len(session.current_state.places_to_avoid) < MaxAvoid
          /\ LET req == resume_payload(session, feedback_text, avoid_new)
             IN  /\ request' = req
                 /\ state' = resume_state(req)
                 /\ final_state' = resume_state(req)
    /\ held' = session
    /\ response' = no_response
    /\ trace' = <<>> /\ llm' = NoLlm /\ all_places' = <<>>
    /\ pc' = "vibe_interpreter"
    /\ UNCHANGED <<conc, sidebar, session, tool>>

(* main.py:256-262  the edges of the graph *)
next_node(node, s) ==
    CASE node = "vibe_interpreter" -> "search_agent"
      [] node = "search_agent" -> "itinerary_agent"
      [] node = "itinerary_agent" -> "await_feedback"
      [] node = "await_feedback" -> check_feedback(s)

(* the conditional edge decided on the graph state as the node found it *)
Emit_edge_before_merge(node, out) ==
    /\ state' = Update(state, out)
    /\ final_state' = Update(final_state, out)
    /\ trace' = Append(trace, node)
    /\ pc' = LET n == next_node(node, state)
             IN  IF n = END THEN "return" ELSE n

(* main.py:286-289 / 301-304  one event of app.stream: the node's output is *)
(* merged into the graph state and into the handler's final_state          *)
(* The conditional edge after await_feedback reads the graph state with    *)
(* that node's output already merged into it.                              *)
Emit(node, out) ==
    /\ state' = Update(state, out)
    /\ final_state' = Update(final_state, out)
    /\ trace' = Append(trace, node)
    /\ pc' = LET n == next_node(node, Update(state, out))
             IN  IF n = END THEN "return" ELSE n

RunVibeInterpreter ==
    /\ pc = "vibe_interpreter"
    /\ \E keywords \in GeneratedKeywords(target_count(state.duration_days)) :
          /\ llm' = [llm EXCEPT !.target_count = target_count(state.duration_days),
                                !.keywords = keywords]
          /\ Emit("vibe_interpreter", vibe_interpreter_agent(state, keywords))
    /\ UNCHANGED <<conc, sidebar, session, held, request, response, all_places, tool>>

(* main.py:183-202  the tool-invoking generator answers, its tool calls run *)
RunSearchTools ==
    /\ pc = "search_agent"
    /\ \E n \in 0..MaxToolCalls :
          \E tool_calls \in [1..n -> ToolCalls(location_fixed(state.destination))] :
                all_places' = collect(tool_calls, 1)
    /\ llm' = [llm EXCEPT !.location_name = location_fixed(state.destination)]
    /\ pc' = "search_dedup"
    /\ UNCHANGED <<conc, sidebar, session, held, request, response, state, final_state,
                   trace, tool>>

(* main.py:204-212 *)
RunSearchDedup ==
    /\ pc = "search_dedup"
    /\ Emit("search_agent", search_agent(state, all_places))
    /\ UNCHANGED <<conc, sidebar, session, held, request, response, llm, all_places, tool>>

RunItinerary ==
    /\ pc = "itinerary_agent"
    /\ \E content \in Drafts : Emit("itinerary_agent", itinerary_agent(state, content))
    /\ UNCHANGED <<conc, sidebar, session, held, request, response, llm, all_places, tool>>

RunAwaitFeedback ==
    /\ pc = "await_feedback"
    /\ Emit("await_feedback", await_feedback(state))
    /\ UNCHANGED <<conc, sidebar, session, held, request, response, llm, all_places, tool>>

(* a generator call raises: llm_hero_structured.invoke, main.py:177 *)
FailVibeInterpreter ==
    /\ pc = "vibe_interpreter"
    /\ llm' = [llm EXCEPT !.target_count = target_count(state.duration_days),
                          !.failed = "vibe_interpreter"]
    /\ pc' = "error"
    /\ UNCHANGED <<conc, sidebar, session, held, request, response, state, final_state,
                   trace, all_places, tool>>

(* llm_gemini_tools.invoke, main.py:194 *)
FailSearch ==
    /\ pc = "search_agent"
    /\ llm' = [llm EXCEPT !.location_name = location_fixed(state.destination),
                          !.failed = "search_agent"]
    /\ pc' = "error"
    /\ UNCHANGED <<conc, sidebar, session, held, request, response, state, final_state,
                   trace, all_places, tool>>

(* llm_hero.invoke, main.py:236 *)
FailItinerary ==
    /\ pc = "itinerary_agent"
    /\ llm' = [llm EXCEPT !.failed = "itinerary_agent"]
    /\ pc' = "error"
    /\ UNCHANGED <<conc, sidebar, session, held, request, response, state, final_state,
                   trace, all_places, tool>>

(* main.py:291 / 306 and frontend.py:94-98 / 131-136 *)
Respond ==
    /\ pc = "return"
    /\ response' = plan_response(final_state)
    /\ session' = on_response(session, plan_response(final_state))
    /\ pc' = "idle"
    /\ UNCHANGED <<conc, sidebar, held, request, state, final_state, trace, llm,
                   all_places, tool>>

(* the exception leaves the handler; frontend.py:99-102 / 137-140 *)
RespondError ==
    /\ pc = "error"
    /\ response' = error_response
    /\ session' = on_response(session, error_response)
    /\ pc' = "idle"
    /\ UNCHANGED <<conc, sidebar, held, request, state, final_state, trace, llm,
                   all_places, tool>>

Next ==
    \/ StartPlan \/ ResumePlan
    \/ RunVibeInterpreter \/ RunSearchTools \/ RunSearchDedup
    \/ RunItinerary \/ RunAwaitFeedback
    \/ FailVibeInterpreter \/ FailSearch \/ FailItinerary
    \/ Respond \/ RespondError

Spec == Init /\ [][Next]_vars

----------------------------------------------------------------------------
(* The Keyword Synthesizer alone, entered with any TripState a start or a  *)
(* resume can hand it, for every duration the sidebar slider offers        *)
(* (frontend.py:66).                                                       *)

RECURSIVE SeqsUpTo(_, _)
SeqsUpTo(S, n) ==
    IF n = 0 THEN {<<>>}
    ELSE LET shorter == SeqsUpTo(S, n - 1)
         IN  shorter \cup {Append(q, x) : q \in {r \in shorter : Len(r) = n - 1}, x \in S}

AvoidLists == SeqsUpTo(Names, MaxAvoid)

WideSidebars ==
    [destination : {Kyoto, London}, duration_days : MinDuration..MaxDuration,
     vibe : {"zen gardens", "street food"}, avoid : AvoidLists]

(* a TripState as an earlier successful pass returned it *)
Returned(sb) ==
    Update(initial_input(start_payload(sb)),
           [user_feedback |-> None,
            keywords |-> KeywordList(target_count(sb.duration_days)),
            search_results |-> <<>>, itinerary_draft |-> "# Day 1"])

SessionOf(sb) == [itinerary |-> "# Day 1", current_state |-> Returned(sb)]

WideRequests ==
    {start_payload(sb) : sb \in WideSidebars}
    \cup {resume_payload(SessionOf(sb), f, a) :
            sb \in WideSidebars, f \in Feedbacks, a \in Names \cup {""}}

InitKeywords ==
    /\ sidebar \in WideSidebars
    /\ request \in WideRequests
    /\ request.current_state.destination = sidebar.destination
    /\ request.current_state.duration_days = sidebar.duration_days
    /\ request.current_state.vibe = sidebar.vibe
    /\ IF request.op = "start"
       THEN /\ request.current_state.places_to_avoid = sidebar.avoid
            /\ session = NoSession
            /\ state = initial_input(request)
       ELSE /\ request.current_state = Returned(sidebar)
            /\ session = SessionOf(sidebar)
            /\ state = resume_state(request)
    /\ final_state = state
    /\ held = session
    /\ response = no_response
    /\ trace = <<>> /\ llm = NoLlm /\ all_places = <<>>
    /\ pc = "vibe_interpreter"
    /\ tool = NoTool
    /\ conc = NoConc

NextKeywords == RunVibeInterpreter \/ FailVibeInterpreter

SpecKeywords == InitKeywords /\ [][NextKeywords]_vars

----------------------------------------------------------------------------
(* The deduplication of the Place Search Orchestrator alone, entered with  *)
(* any list of collected places and any places_to_avoid.                   *)

LocAt(km) == Loc(IF km <= 30 THEN "Kyoto" ELSE "Nara", km)

WidePlaces == {Place(n, LocAt(km)) : n \in Names, km \in {5, 45}}

InitSearch ==
    /\ sidebar \in {sb \in WideSidebars :
                      /\ sb.destination = Kyoto /\ sb.duration_days = 3
                      /\ sb.vibe = "zen gardens"}
    /\ request = start_payload(sidebar)
    /\ state = Update(initial_input(request),
                      [keywords |-> KeywordList(target_count(sidebar.duration_days))])
    /\ final_state = state
    /\ session = NoSession /\ held = NoSession
    /\ response = no_response
    /\ trace = <<"vibe_interpreter">>
    /\ llm = [target_count |-> target_count(sidebar.duration_days),
              keywords |-> state.keywords,
              location_name |-> location_fixed(sidebar.destination), failed |-> ""]
    /\ all_places \in SeqsUpTo(WidePlaces, MaxPlaces)
    /\ pc = "search_dedup"
    /\ tool = NoTool
    /\ conc = NoConc

NextSearch == RunSearchDedup

SpecSearch == InitSearch /\ [][NextSearch]_vars

----------------------------------------------------------------------------
(* The Geolocation Resolver alone: one call, against any answers of the    *)
(* geocoder.                                                               *)

Importances == {40, 75, 76, 90}
Distances == {30, 31, 45, 200, 201}

WideCities ==
    {City("ok", 0, TRUE, imp) : imp \in Importances} \cup {City("ok", 0, FALSE, 0)}

(* more matches than the limit asked of the geocoder: all far, or one near *)
LongMatches ==
    {[i \in 1..(GlobalLimit + 1) |-> LocAt(IF i = k THEN 30 ELSE 201)] :
        k \in 0..(GlobalLimit + 1)}

WideGeo ==
    {Geo(City(k, 0, FALSE, 0), NoStrict, NoGlobal) : k \in {"none", "exc"}}
    \cup {Geo(c, st, gl) :
            c \in WideCities,
            st \in {NoStrict, Strict("exc", NoLoc)}
                     \cup {Strict("ok", LocAt(km)) : km \in Distances},
            gl \in {Global("exc", <<>>)}
                     \cup {Global("ok", m) :
                              m \in SeqsUpTo({LocAt(km) : km \in Distances}, MaxCandidates)
                                      \cup LongMatches}}

InitResolver ==
    /\ sidebar \in {sb \in WideSidebars :
                      /\ sb.destination = Kyoto /\ sb.duration_days = 3
                      /\ sb.vibe = "zen gardens" /\ sb.avoid = <<>>}
    /\ Idle
    /\ state = EmptyDict /\ final_state = EmptyDict
    /\ pc = "tool"
    /\ conc = NoConc
    /\ tool \in {[args |-> [query |-> q, location_name |-> Kyoto], geo |-> g,
                  output |-> <<>>, log |-> <<>>, called |-> FALSE,
                  elected |-> <<>>, pending |-> <<>>] :
                    q \in Names, g \in WideGeo}

(* main.py:200  query_places_nominatim.invoke(tool_call['args']) *)
InvokeTool ==
    /\ pc = "tool"
    /\ LET r == query_places_nominatim(tool.args.query, tool.args.location_name, tool.geo)
       IN  tool' = [tool EXCEPT !.output = r.output, !.log = r.log, !.called = TRUE]
    /\ pc' = "tool_done"
    /\ UNCHANGED <<conc, sidebar, session, held, request, response, state, final_state,
                   trace, llm, all_places>>

NextResolver == InvokeTool

SpecResolver == InitResolver /\ [][NextResolver]_vars

----------------------------------------------------------------------------
(* The Place Search Orchestrator one tool call at a time, main.py:194-202, *)
(* and the rest of the pass after it: the geocoder fails or misses in      *)
(* every way it can, and the events of all resolver calls of the pass are  *)
(* kept in one log.                                                        *)

(* the geocoder's answers to one resolver call: an exception at each of    *)
(* its three calls, no anchor, no candidate, no candidate near enough, and *)
(* two hits                                                                *)
FailingGeo ==
    { Geo(City("exc", 0, FALSE, 0), NoStrict, NoGlobal),
      Geo(NoCity, NoStrict, NoGlobal),
      Geo(City("ok", 0, TRUE, 90), Strict("exc", NoLoc), NoGlobal),
      Geo(City("ok", 0, TRUE, 90), NoStrict, Global("exc", <<>>)),
      Geo(City("ok", 0, TRUE, 90), NoStrict, NoGlobal),
      Geo(City("ok", 0, TRUE, 90), NoStrict, Global("ok", <<LocAt(45)>>)) }

OrchestratorGeo ==
    FailingGeo
    \cup { Geo(City("ok", 0, TRUE, 90), Strict("ok", LocAt(5)), NoGlobal),
           Geo(City("ok", 0, TRUE, 40), NoStrict, Global("ok", <<LocAt(45)>>)) }

OrchestratorToolCalls(location_name) ==
    {[call |-> ToolCall("query_places_nominatim", q, location_name), answers |-> g] :
        q \in Names, g \in OrchestratorGeo}
    \cup {[call |-> ToolCall("get_ors_directions", "Fushimi Inari", location_name),
           answers |-> Geo(NoCity, NoStrict, NoGlobal)]}

InitOrchestrator ==
    /\ sidebar \in {sb \in WideSidebars :
                      /\ sb.destination = Kyoto /\ sb.duration_days = 3
                      /\ sb.vibe = "zen gardens"
                      /\ sb.avoid \in {<<>>, <<"Kinkaku-ji">>}}
    /\ request = start_payload(sidebar)
    /\ state = Update(initial_input(request),
                      [keywords |-> KeywordList(target_count(sidebar.duration_days))])
    /\ final_state = state
    /\ session = NoSession /\ held = NoSession
    /\ response = no_response
    /\ trace = <<"vibe_interpreter">>
    /\ llm = [target_count |-> target_count(sidebar.duration_days),
              keywords |-> state.keywords, location_name |-> <<>>, failed |-> ""]
    /\ all_places = <<>>
    /\ pc = "search_agent"
    /\ tool = NoTool
    /\ conc = NoConc

(* main.py:194-197  the tool-invoking generator answers with its tool calls *)
ElectToolCalls ==
    /\ pc = "search_agent"
    /\ \E n \in 0..MaxToolCalls :
          \E tool_calls \in [1..n -> OrchestratorToolCalls(location_fixed(state.destination))] :
             /\ tool' = [NoTool EXCEPT !.elected = tool_calls, !.pending = tool_calls]
             /\ pc' = IF tool_calls = <<>> THEN "search_dedup" ELSE "search_tools"
    /\ llm' = [llm EXCEPT !.location_name = location_fixed(state.destination)]
    /\ all_places' = <<>>
    /\ UNCHANGED <<conc, sidebar, session, held, request, response, state, final_state, trace>>

(* the loop is left at the first tool call that yields nothing *)
InvokeNextTool_stop_on_empty ==
    /\ pc = "search_tools"
    /\ tool.pending # <<>>
    /\ LET h == Head(tool.pending)
           r == IF h.call.name = "query_places_nominatim"
                THEN query_places_nominatim(h.call.args.query, h.call.args.location_name,
                                            h.answers)
                ELSE [output |-> <<>>, log |-> <<>>]
           rest == IF r.output = <<>> THEN <<>> ELSE Tail(tool.pending)
       IN  /\ all_places' = all_places \o r.output
           /\ tool' = [tool EXCEPT !.pending = rest, !.args = h.call.args,
                                   !.geo = h.answers, !.output = r.output,
                                   !.log = tool.log \o r.log,
                                   !.called = (h.call.name = "query_places_nominatim")]
           /\ pc' = IF rest = <<>> THEN "search_dedup" ELSE "search_tools"
    /\ UNCHANGED <<conc, sidebar, session, held, request, response, state, final_state,
                   trace, llm>>

(* main.py:198-202  one turn of the loop over response.tool_calls *)
InvokeNextTool ==
    /\ pc = "search_tools"
    /\ tool.pending # <<>>
    /\ LET h == Head(tool.pending)
           r == IF h.call.name = "query_places_nominatim"
                THEN query_places_nominatim(h.call.args.query, h.call.args.location_name,
                                            h.answers)
                ELSE [output |-> <<>>, log |-> <<>>]
           rest == Tail(tool.pending)
       IN  /\ all_places' = all_places \o r.output
           /\ tool' = [tool EXCEPT !.pending = rest, !.args = h.call.args,
                                   !.geo = h.answers, !.output = r.output,
                                   !.log = tool.log \o r.log,
                                   !.called = (h.call.name = "query_places_nominatim")]
           /\ pc' = IF rest = <<>> THEN "search_dedup" ELSE "search_tools"
    /\ UNCHANGED <<conc, sidebar, session, held, request, response, state, final_state,
                   trace, llm>>

NextOrchestrator ==
    \/ ElectToolCalls \/ InvokeNextTool \/ RunSearchDedup
    \/ RunItinerary \/ RunAwaitFeedback \/ Respond

SpecOrchestrator == InitOrchestrator /\ [][NextOrchestrator]_vars

----------------------------------------------------------------------------
(* Two plan requests in the server at once.  start_plan and resume_plan    *)
(* are plain functions, run by the server in worker threads; each          *)
(* invocation has its own request body, its own initial_input or           *)
(* resume_state, its own final_state and its own app.stream run of the     *)
(* compiled graph, which is built without a checkpointer (main.py:264).    *)
(* The steps of the two invocations interleave in any order.  What the     *)
(* generators and the geocoder answer to a request is fixed with it.       *)

ReqIds == {1, 2}

ConcRequests ==
    {start_payload(sb) : sb \in Sidebars}
    \cup {resume_payload(SessionOf(sb), "more food spots", a) :
            sb \in {t \in Sidebars : t.avoid # <<>>}, a \in {"", "Fushimi Inari"}}

(* the answers a request gets: the keyword list, the places the resolver   *)
(* calls yield, the itinerary text                                         *)
Scripts ==
    [keywords : {KeywordList(MinKeywords)},
     places : {<<>>, <<Place("Kinkaku-ji", LocAt(5)), Place("Fushimi Inari", LocAt(5))>>},
     content : Drafts]

InitConcurrent ==
    /\ sidebar \in {sb \in Sidebars : sb.avoid # <<>>}
    /\ Idle
    /\ pc = "idle"
    /\ state = EmptyDict /\ final_state = EmptyDict
    /\ tool = NoTool
    /\ conc \in [ReqIds -> {[request |-> req, script |-> sc, pc |-> "arrived",
                              state |-> EmptyDict, final_state |-> EmptyDict,
                              trace |-> <<>>, response |-> no_response] :
                                req \in ConcRequests, sc \in Scripts}]

ConcFrame ==
    UNCHANGED <<sidebar, session, held, request, response, pc, state, final_state,
                trace, llm, all_places, tool>>

(* main.py:282-286 / 295-301  the handler builds its input and final_state *)
ConcEnter(r) ==
    /\ conc[r].pc = "arrived"
    /\ LET input == IF conc[r].request.op = "start"
                    THEN initial_input(conc[r].request)
                    ELSE resume_state(conc[r].request)
       IN  conc' = [conc EXCEPT ![r].state = input, ![r].final_state = input,
                                ![r].pc = "vibe_interpreter"]
    /\ ConcFrame

(* final_state is one object of the module, updated by every invocation *)
ConcEmit_shared_final_state(r, node, out) ==
    /\ conc' = [q \in ReqIds |->
                  IF q = r
                  THEN [conc[q] EXCEPT
                          !.state = Update(@, out),
                          !.final_state = Update(@, out),
                          !.trace = Append(@, node),
                          !.pc = LET n == next_node(node, Update(conc[q].state, out))
                                 IN  IF n = END THEN "return" ELSE n]
                  ELSE [conc[q] EXCEPT
                          !.final_state = IF conc[q].pc \in {"arrived", "done"}
                                          THEN @ ELSE Update(@, out)]]
    /\ ConcFrame

(* main.py:286-289 / 301-304  one event of this invocation's app.stream *)
ConcEmit(r, node, out) ==
    /\ conc' = [conc EXCEPT
                  ![r].state = Update(@, out),
                  ![r].final_state = Update(@, out),
                  ![r].trace = Append(@, node),
                  ![r].pc = LET n == next_node(node, Update(conc[r].state, out))
                            IN  IF n = END THEN "return" ELSE n]
    /\ ConcFrame

ConcVibeInterpreter(r) ==
    /\ conc[r].pc = "vibe_interpreter"
    /\ ConcEmit(r, "vibe_interpreter",
                vibe_interpreter_agent(conc[r].state, conc[r].script.keywords))

ConcSearch(r) ==
    /\ conc[r].pc = "search_agent"
    /\ ConcEmit(r, "search_agent", search_agent(conc[r].state, conc[r].script.places))

ConcItinerary(r) ==
    /\ conc[r].pc = "itinerary_agent"
    /\ ConcEmit(r, "itinerary_agent",
                itinerary_agent(conc[r].state, conc[r].script.content))

ConcAwaitFeedback(r) ==
    /\ conc[r].pc = "await_feedback"
    /\ ConcEmit(r, "await_feedback", await_feedback(conc[r].state))

(* main.py:291 / 306 *)
ConcRespond(r) ==
    /\ conc[r].pc = "return"
    /\ conc' = [conc EXCEPT ![r].response = plan_response(conc[r].final_state),
                            ![r].pc = "done"]
    /\ ConcFrame

NextConcurrent ==
    \E r \in ReqIds :
        \/ ConcEnter(r) \/ ConcVibeInterpreter(r) \/ ConcSearch(r)
        \/ ConcItinerary(r) \/ ConcAwaitFeedback(r) \/ ConcRespond(r)

SpecConcurrent == InitConcurrent /\ [][NextConcurrent]_vars

----------------------------------------------------------------------------
(* Properties *)

IsPrefix(t, o) == Len(t) <= Len(o) /\ \A i \in 1..Len(t) : t[i] = o[i]
NamesOf(places) == {places[i].name : i \in 1..Len(places)}
NoTwoEqualNames(places) ==
    \A i, j \in 1..Len(places) : places[i].name = places[j].name => i = j
Returned200 == response.status = 200
Returned500 == response.status = 500

(* C1: a run in which no node fails executes vibe_interpreter, search_agent, *)
(* itinerary_agent and await_feedback once each, in that order, one at a    *)
(* time, and then ends: the nodes executed so far are always a prefix of    *)
(* that order, the node about to run is the next one of it, and the run     *)
(* returns exactly when all four have run, whatever user_feedback was.      *)
C1_OnePassInOrder ==
    /\ IsPrefix(trace, Order)
    /\ pc = "vibe_interpreter" => trace = <<>>
    /\ pc \in {"search_agent", "search_dedup"} => trace = SubSeq(Order, 1, 1)
    /\ pc = "itinerary_agent" => trace = SubSeq(Order, 1, 2)
    /\ pc = "await_feedback" => trace = SubSeq(Order, 1, 3)
    /\ pc = "return" => trace = Order
    /\ Returned200 => trace = Order

C1_Witness ==
    /\ Returned200 /\ request.op = "resume" /\ request.user_feedback = "more food spots"
    /\ trace = Order /\ pc = "idle"

(* C2: the list the Place Search Orchestrator returns has no two places of  *)
(* equal name and no place whose name is in places_to_avoid, for every list *)
(* of collected places and every places_to_avoid.                           *)
C2_DedupAndAvoid ==
    pc = "itinerary_agent" =>
        /\ NoTwoEqualNames(state.search_results)
        /\ NamesOf(state.search_results) \cap Range(state.places_to_avoid) = {}

C2_Witness ==
    /\ pc = "itinerary_agent"
    /\ ~NoTwoEqualNames(all_places)
    /\ NamesOf(all_places) \cap Range(state.places_to_avoid) # {}
    /\ state.search_results # <<>>

(* C3: in every TripState a start or resume returns, no place of            *)
(* search_results is named in places_to_avoid; a resume that supplied a     *)
(* place_to_avoid returns it in places_to_avoid and not in search_results.  *)
C3_ReturnedAvoidExcluded ==
    Returned200 =>
        /\ NamesOf(response.current_state.search_results)
              \cap Range(response.current_state.places_to_avoid) = {}
        /\ (request.op = "resume" /\ Truthy(request.place_to_avoid)) =>
              /\ request.place_to_avoid \in Range(response.current_state.places_to_avoid)
              /\ request.place_to_avoid \notin NamesOf(response.current_state.search_results)

C3_Witness ==
    /\ Returned200 /\ request.op = "resume" /\ Truthy(request.place_to_avoid)
    /\ request.place_to_avoid \in NamesOf(request.current_state.search_results)
    /\ request.place_to_avoid \in NamesOf(all_places)
    /\ request.place_to_avoid \notin NamesOf(session.current_state.search_results)
    /\ request.place_to_avoid \in Range(session.current_state.places_to_avoid)

(* C4: places_to_avoid never shrinks: while a resume runs and in the state  *)
(* it returns, every entry of the input state's places_to_avoid is still    *)
(* there, the list is no shorter, and a supplied place_to_avoid is in it.   *)
C4_AvoidMonotone ==
    (request.op = "resume" /\ (pc # "idle" \/ Returned200)) =>
        LET old == request.current_state.places_to_avoid
            kept(new) ==
                /\ Range(old) \subseteq Range(new)
                /\ Len(old) <= Len(new)
                /\ Truthy(request.place_to_avoid) => request.place_to_avoid \in Range(new)
        IN  /\ kept(state.places_to_avoid)
            /\ kept(final_state.places_to_avoid)
            /\ Returned200 => /\ kept(response.current_state.places_to_avoid)
                              /\ kept(session.current_state.places_to_avoid)

C4_Witness ==
    /\ Returned200 /\ request.op = "resume" /\ Truthy(request.place_to_avoid)
    /\ request.current_state.places_to_avoid # <<>>
    /\ request.place_to_avoid \notin Range(request.current_state.places_to_avoid)
    /\ Len(session.current_state.places_to_avoid)
          = Len(request.current_state.places_to_avoid) + 1

(* C5 as stated: in every returned TripState the length of keywords is      *)
(* max(10, duration_days * 4), whatever the generator returned.             *)
C5_LengthAlwaysTarget ==
    Returned200 =>
        Len(response.current_state.keywords)
            = Max(10, response.current_state.duration_days * 4)

(* C5 amended: in every returned TripState keywords is the list the         *)
(* generator returned, as it is; its length is max(10, duration_days * 4)   *)
(* when the generator returned as many terms as it was asked for.           *)
C5_KeywordsAsGenerated ==
    Returned200 =>
        /\ response.current_state.keywords = llm.keywords
        /\ Len(llm.keywords) = llm.target_count =>
              Len(response.current_state.keywords)
                  = Max(10, response.current_state.duration_days * 4)

C5_Witness ==
    /\ Returned200 /\ response.current_state.duration_days = 3
    /\ Len(response.current_state.keywords) = 12

(* C6: for every duration_days in 1..14 the Keyword Synthesizer asks for    *)
(* max(10, duration_days * 4) terms, on a start pass and on a resume pass   *)
(* alike, whatever places_to_avoid, vibe and user_feedback are.             *)
C6_RequestedCount ==
    pc \in {"search_agent", "error"} =>
        /\ state.duration_days \in 1..14
        /\ llm.target_count
              = (IF state.duration_days * 4 > 10 THEN state.duration_days * 4 ELSE 10)

C6_Witness ==
    /\ pc = "search_agent" /\ request.op = "resume"
    /\ state.duration_days = 1 /\ llm.target_count = 10
    /\ state.places_to_avoid # <<>> /\ state.user_feedback = "more food spots"

(* C7: a resume with empty user_feedback and no place_to_avoid still runs   *)
(* one full pass of the four nodes and returns a TripState with exactly the *)
(* fields of the input state.                                               *)
C7_ResumeSameShape ==
    (Returned200 /\ request.op = "resume" /\ request.user_feedback = ""
        /\ request.place_to_avoid = None) =>
        /\ trace = Order
        /\ DOMAIN response.current_state = DOMAIN request.current_state
        /\ DOMAIN response.current_state = Fields

C7_Witness ==
    /\ Returned200 /\ request.op = "resume" /\ request.user_feedback = ""
    /\ request.place_to_avoid = None /\ trace = Order
    /\ DOMAIN session.current_state = Fields

(* C8: in the global-search fallback the radius limit is 30 km when the     *)
(* anchor's importance is above 0.75 and 200 km otherwise (0.75 itself and  *)
(* an absent importance included): a place is returned exactly when some    *)
(* candidate lies within that limit; importance 0.9 with one candidate at   *)
(* 45 km gives nothing, importance 0.4 gives that candidate.                *)
C8_RadiusByImportance ==
    (pc = "tool_done" /\ tool.geo.city.kind = "ok" /\ tool.geo.strict.kind = "none"
        /\ tool.geo.global.kind = "ok") =>
        LET c == tool.geo.city
            imp == IF c.has_importance THEN c.importance ELSE 50
            limit == IF imp > 75 THEN 30 ELSE 200
            m == tool.geo.global.matches
            returned == IF Len(m) > 5 THEN 5 ELSE Len(m)
            near == {i \in 1..returned : Abs(m[i].coord - c.coord) <= limit}
        IN  /\ (tool.output # <<>>) <=> (near # {})
            /\ (imp = 90 /\ m = <<LocAt(45)>>) => tool.output = <<>>
            /\ (imp = 40 /\ m = <<LocAt(45)>>) =>
                  tool.output = <<Place(tool.args.query, LocAt(45))>>
            /\ (imp = 75 /\ m = <<LocAt(45)>>) => tool.output # <<>>

C8_Witness ==
    /\ pc = "tool_done" /\ tool.geo.city.kind = "ok" /\ tool.geo.strict.kind = "none"
    /\ tool.geo.global.kind = "ok"
    /\ tool.geo.city.has_importance /\ tool.geo.city.importance = 75
    /\ tool.geo.global.matches = <<LocAt(45)>>
    /\ tool.output = <<Place(tool.args.query, LocAt(45))>>

(* C9: when the strict search returns a result, the resolver returns that   *)
(* result without a distance check, and the global search is not called.    *)
C9_StrictShortCircuits ==
    (pc = "tool_done" /\ tool.geo.city.kind = "ok" /\ tool.geo.strict.kind = "ok") =>
        /\ tool.output = <<Place(tool.args.query, tool.geo.strict.loc)>>
        /\ "geocode_global" \notin Range(tool.log)
        /\ tool.log = <<"geocode_city", "sleep", "geocode_strict">>

C9_Witness ==
    /\ pc = "tool_done" /\ tool.geo.city.kind = "ok" /\ tool.geo.strict.kind = "ok"
    /\ tool.geo.city.has_importance /\ tool.geo.city.importance = 90
    /\ Abs(tool.geo.strict.loc.coord - tool.geo.city.coord) = 201
    /\ tool.geo.global.kind = "ok" /\ tool.geo.global.matches # <<>>
    /\ tool.output # <<>>

(* C10: after a resume request that failed, the caller holds the            *)
(* current_state and itinerary it held before: current_state is what it     *)
(* sent, and the place_to_avoid of the request is not added to it.          *)
C10_FailedResumeKeepsState ==
    (Returned500 /\ request.op = "resume") =>
        /\ session = held
        /\ session.current_state = request.current_state
        /\ session.current_state.places_to_avoid = held.current_state.places_to_avoid

C10_Witness ==
    /\ Returned500 /\ request.op = "resume" /\ Truthy(request.place_to_avoid)
    /\ request.place_to_avoid \in Range(final_state.places_to_avoid)
    /\ request.place_to_avoid \notin Range(session.current_state.places_to_avoid)
    /\ trace = SubSeq(Order, 1, 2)

(* C11: when the generator call of the Keyword Synthesizer, the Place       *)
(* Search Orchestrator or the Itinerary Composer fails, the failure leaves  *)
(* the run: the nodes executed are exactly those before the failed one (it  *)
(* does not run again and no later node runs), and the operation returns    *)
(* no TripState and no itinerary; the caller keeps what it held.            *)
C11_FailurePropagates ==
    llm.failed # "" =>
        /\ pc \in {"error", "idle"}
        /\ \E k \in 1..3 : llm.failed = Order[k] /\ trace = SubSeq(Order, 1, k - 1)
        /\ pc = "idle" =>
              /\ response.status = 500
              /\ response.itinerary_draft = None
              /\ response.current_state = EmptyDict
              /\ session = held

C11_Witness ==
    /\ llm.failed = "search_agent" /\ pc = "idle" /\ response.status = 500
    /\ trace = <<"vibe_interpreter">> /\ request.op = "start"

(* C12 as stated: at the Feedback Gate a non-empty user_feedback is cleared *)
(* and the next node is the Keyword Synthesizer; an empty one ends the run. *)
C12_LoopsBack ==
    [][pc = "await_feedback" =>
          IF Truthy(Get(state, "user_feedback"))
          THEN ~Truthy(Get(state', "user_feedback")) /\ pc' = "vibe_interpreter"
          ELSE pc' = "return"]_vars

(* C12 amended: at the Feedback Gate user_feedback is cleared whatever it   *)
(* held, the routing decision reads the cleared value, and so the run ends  *)
(* there in both cases: no node follows and the accumulated state is what   *)
(* the operation returns.                                                   *)
C12_GateAlwaysEnds ==
    [][/\ pc = "await_feedback" =>
             /\ Get(state', "user_feedback") = None
             /\ Get(final_state', "user_feedback") = None
             /\ trace' = Append(trace, "await_feedback")
             /\ pc' = "return"
       /\ pc = "return" =>
             /\ pc' = "idle"
             /\ response'.status = 200
             /\ response'.current_state = final_state]_vars

C12_Witness ==
    /\ pc = "return" /\ trace = Order
    /\ request.op = "resume" /\ request.user_feedback = "more food spots"
    /\ Get(state, "user_feedback") = None

(* C13: the Place Search Orchestrator's output is the subsequence of the    *)
(* collected places made of the first occurrence of each name that is not   *)
(* in places_to_avoid, in the order collected: a later place of a kept name *)
(* never replaces the earlier one.                                          *)
C13_FirstOccurrenceInOrder ==
    pc = "itinerary_agent" =>
        LET kept == {i \in 1..Len(all_places) :
                        /\ all_places[i].name \notin Range(state.places_to_avoid)
                        /\ \A j \in 1..(i - 1) : all_places[j].name # all_places[i].name}
            rank(i) == Cardinality({j \in kept : j <= i})
        IN  /\ Len(state.search_results) = Cardinality(kept)
            /\ \A i \in kept : state.search_results[rank(i)] = all_places[i]

C13_Witness ==
    /\ pc = "itinerary_agent" /\ Len(all_places) = 3
    /\ all_places[1].name = "Kinkaku-ji" /\ all_places[2].name = "Fushimi Inari"
    /\ all_places[3].name = "Kinkaku-ji" /\ all_places[3] # all_places[1]
    /\ state.places_to_avoid = <<>>
    /\ state.search_results = <<all_places[1], all_places[2]>>

(* C14: when the strict search finds nothing, the resolver looks at no more *)
(* than the 5 candidates the geocoder returns, in their order, and returns  *)
(* the first whose distance from the anchor is at most the radius limit,    *)
(* even when a later one is nearer; with no such candidate, or no           *)
(* candidate at all, it returns the empty list.                             *)
C14_FirstAcceptableOfFive ==
    (pc = "tool_done" /\ tool.geo.city.kind = "ok" /\ tool.geo.strict.kind = "none"
        /\ tool.geo.global.kind = "ok") =>
        LET c == tool.geo.city
            imp == IF c.has_importance THEN c.importance ELSE 50
            limit == IF imp > 75 THEN 30 ELSE 200
            m == tool.geo.global.matches
            n == IF Len(m) > 5 THEN 5 ELSE Len(m)
            within == {i \in 1..n : Abs(m[i].coord - c.coord) <= limit}
        IN  IF within = {}
            THEN tool.output = <<>>
            ELSE \E i \in within :
                    /\ \A j \in within : i <= j
                    /\ tool.output = <<Place(tool.args.query, m[i])>>

C14_Witness ==
    /\ pc = "tool_done" /\ tool.geo.city.kind = "ok" /\ tool.geo.strict.kind = "none"
    /\ tool.geo.global.kind = "ok"
    /\ tool.geo.city.has_importance /\ tool.geo.city.importance = 40
    /\ tool.geo.global.matches = <<LocAt(200), LocAt(30)>>
    /\ tool.output = <<Place(tool.args.query, LocAt(200))>>

(* the answers on which the resolver has no place to report *)
NoPlaceFor(g) ==
    \/ g.city.kind # "ok"
    \/ g.strict.kind = "exc"
    \/ g.strict.kind = "none" /\ g.global.kind = "exc"
    \/ g.strict.kind = "none" /\ g.global.kind = "ok"
       /\ \A i \in 1..Len(g.global.matches) :
             Abs(g.global.matches[i].coord - g.city.coord)
                 > (IF g.city.has_importance /\ g.city.importance > 75 THEN 30 ELSE 200)

ResolverCalls(tool_calls) ==
    {i \in 1..Len(tool_calls) : tool_calls[i].call.name = "query_places_nominatim"}

(* C15: the resolver never fails.  A geocoder exception at the anchor       *)
(* lookup, the strict search or the global search, an anchor that is not    *)
(* found and a lookup miss each make the call just run return the empty     *)
(* list; the orchestrator still runs every remaining tool call, so that     *)
(* when its loop ends the collected places are those of all elected calls;  *)
(* the pass then completes: with every call failing, an empty               *)
(* search_results reaches the itinerary node and is returned with status    *)
(* 200 after all four nodes ran.                                            *)
C15_ResolverNeverFails ==
    /\ pc # "error"
    /\ (pc \in {"search_tools", "search_dedup"} /\ tool.called /\ NoPlaceFor(tool.geo)) =>
          tool.output = <<>>
    /\ pc \in {"search_tools", "search_dedup"} =>
          /\ Len(tool.elected) - Len(tool.pending) \in 0..Len(tool.elected)
          /\ all_places = collect(SubSeq(tool.elected, 1,
                                         Len(tool.elected) - Len(tool.pending)), 1)
    /\ pc = "search_dedup" => tool.pending = <<>>
    /\ (pc \in {"itinerary_agent", "await_feedback", "return", "idle"}
        /\ \A i \in ResolverCalls(tool.elected) : NoPlaceFor(tool.elected[i].answers)) =>
          /\ state.search_results = <<>>
          /\ final_state.search_results = <<>>
    /\ pc = "idle" =>
          /\ response.status = 200 /\ trace = Order
          /\ response.current_state.search_results = state.search_results

C15_Witness ==
    /\ pc = "idle" /\ response.status = 200
    /\ Len(tool.elected) = 2
    /\ tool.elected[1].call.name = "query_places_nominatim"
    /\ tool.elected[1].answers.strict.kind = "exc"
    /\ tool.elected[2].call.name = "query_places_nominatim"
    /\ tool.elected[2].answers.city.kind = "exc"
    /\ response.current_state.search_results = <<>>
    /\ Truthy(response.itinerary_draft)

GeocodeEvents == {"geocode_city", "geocode_strict", "geocode_global"}

(* C16: over the resolver calls of a pass, every geocode call is preceded   *)
(* by a pacing delay, so no two geocode calls are issued one after the      *)
(* other without a delay between them: every geocode event after the first  *)
(* event of the log directly follows a sleep, the first call of a resolver  *)
(* invocation after the last call of the one before it included.            *)
C16_NoTwoGeocodesBackToBack ==
    \A i \in 2..Len(tool.log) :
        tool.log[i] \in GeocodeEvents => tool.log[i - 1] = "sleep"

(* what the program does: the anchor lookup of a resolver call is issued    *)
(* with no delay, directly after the last geocode call of the call before   *)
C16_UnpacedAnchorLookup ==
    /\ pc = "search_dedup" /\ Len(tool.elected) = 2
    /\ \E i \in 2..Len(tool.log) :
          tool.log[i] = "geocode_city" /\ tool.log[i - 1] \in GeocodeEvents

(* C17: an empty keyword list from the generator makes the keyword node     *)
(* fail: the node never completes with empty keywords, so the search and    *)
(* itinerary nodes do not run on them and no returned TripState has empty   *)
(* keywords.                                                                *)
C17_EmptyKeywordListFails ==
    /\ trace # <<>> => Get(state, "keywords") # <<>>
    /\ Returned200 => response.current_state.keywords # <<>>

(* what the program does: the pass runs to its end on the empty list *)
C17_EmptyKeywordsReturned ==
    /\ pc = "idle" /\ Returned200 /\ trace = Order
    /\ llm.keywords = <<>> /\ response.current_state.keywords = <<>>

(* the field each node declares as its output *)
OwnerOf(f) ==
    CASE f = "keywords" -> "vibe_interpreter"
      [] f = "search_results" -> "search_agent"
      [] f = "itinerary_draft" -> "itinerary_agent"
      [] f = "user_feedback" -> "await_feedback"
      [] OTHER -> "nobody"

(* the TripState the graph is entered with in the current call *)
EntryState == IF request.op = "start" THEN initial_input(request) ELSE resume_state(request)

(* C18: each node changes only its own output field.  During and after a    *)
(* call, a field of the graph state and of the handler's accumulated state  *)
(* differs from its value at graph entry only if the node that owns it has  *)
(* run; destination, duration_days, vibe and places_to_avoid have no owner  *)
(* and never differ.  Hence destination, duration_days and vibe of every    *)
(* returned state equal those of the request, and, over any sequence of     *)
(* calls, those of the trip first entered.                                  *)
C18_NodesWriteOwnFieldOnly ==
    /\ request.op # "none" =>
          /\ DOMAIN state \subseteq Fields /\ DOMAIN final_state = DOMAIN state
          /\ \A f \in Fields :
                OwnerOf(f) \notin Range(trace) =>
                    /\ f \in DOMAIN state <=> f \in DOMAIN EntryState
                    /\ Get(state, f) = Get(EntryState, f)
                    /\ Get(final_state, f) = Get(EntryState, f)
    /\ Returned200 =>
          \A f \in {"destination", "duration_days", "vibe"} :
              /\ response.current_state[f] = request.current_state[f]
              /\ response.current_state[f] = sidebar[f]
              /\ session.current_state[f] = sidebar[f]

C18_Witness ==
    /\ pc = "idle" /\ Returned200 /\ request.op = "resume" /\ trace = Order
    /\ request.current_state.destination = London
    /\ response.current_state.destination = London
    /\ llm.location_name = LondonUK
    /\ response.current_state.keywords # request.current_state.keywords
    /\ response.current_state.itinerary_draft # request.current_state.itinerary_draft

NoDuplicates(list) == \A i, j \in 1..Len(list) : list[i] = list[j] => i = j

(* C20 as stated: places_to_avoid is a set.  From a start-plan input        *)
(* without duplicates, no places_to_avoid the workflow holds or returns has *)
(* an entry twice, and a resume whose place_to_avoid is already in the list *)
(* returns the list unchanged.                                              *)
C20_AvoidIsASet ==
    /\ "places_to_avoid" \in DOMAIN state => NoDuplicates(state.places_to_avoid)
    /\ Returned200 =>
          /\ NoDuplicates(response.current_state.places_to_avoid)
          /\ (request.op = "resume"
              /\ request.place_to_avoid \in Range(request.current_state.places_to_avoid)) =>
                response.current_state.places_to_avoid =
                    request.current_state.places_to_avoid

(* C20 amended: places_to_avoid is a list.  A resume with a non-empty       *)
(* place_to_avoid returns the list it was given with that entry appended    *)
(* at the end, whether or not the list already holds it: the list is then   *)
(* one longer, and when the entry was already present it occurs once more   *)
(* while the set of names avoided is the same.  A resume without            *)
(* place_to_avoid returns the list as given.                                *)
C20_AvoidIsAListAppended ==
    (Returned200 /\ request.op = "resume") =>
        LET old == request.current_state.places_to_avoid
            new == response.current_state.places_to_avoid
            p == request.place_to_avoid
        IN  IF p = None \/ p = ""
            THEN new = old
            ELSE /\ Len(new) = Len(old) + 1
                 /\ \A i \in 1..Len(old) : new[i] = old[i]
                 /\ new[Len(new)] = p
                 /\ p \in Range(old) => (Range(new) = Range(old) /\ ~NoDuplicates(new))

C20_Witness ==
    /\ pc = "idle" /\ Returned200 /\ request.op = "resume"
    /\ request.current_state.places_to_avoid = <<"Kinkaku-ji">>
    /\ request.place_to_avoid = "Kinkaku-ji"
    /\ response.current_state.places_to_avoid = <<"Kinkaku-ji", "Kinkaku-ji">>
    /\ session.current_state.places_to_avoid = <<"Kinkaku-ji", "Kinkaku-ji">>

(* the TripState a request with these answers returns when it is the only  *)
(* one in the server: the four nodes applied one after the other           *)
RunAlone(req, sc) ==
    LET s0 == IF req.op = "start" THEN initial_input(req) ELSE resume_state(req)
        s1 == Update(s0, vibe_interpreter_agent(s0, sc.keywords))
        s2 == Update(s1, search_agent(s1, sc.places))
        s3 == Update(s2, itinerary_agent(s2, sc.content))
    IN  Update(s3, await_feedback(s3))

(* C19: two plan requests running at once share no mutable state.  In every *)
(* interleaving of their steps, each request ends with, and returns, the    *)
(* TripState it returns when run alone with the same answers of the         *)
(* generators and the geocoder, whatever the other request is and wherever  *)
(* it stands; and a step changes the locals of one request only.            *)
C19_ConcurrentRequestsIndependent ==
    /\ [](\A r \in DOMAIN conc :
            /\ conc[r].pc \in {"return", "done"} =>
                  conc[r].final_state = RunAlone(conc[r].request, conc[r].script)
            /\ conc[r].pc = "done" =>
                  conc[r].response =
                      plan_response(RunAlone(conc[r].request, conc[r].script)))
    /\ [][\E r \in DOMAIN conc : \A q \in DOMAIN conc \ {r} : conc'[q] = conc[q]]_vars

C19_Witness ==
    /\ DOMAIN conc = ReqIds
    /\ conc[1].request.op = "start" /\ conc[2].request.op = "resume"
    /\ conc[1].request.current_state.destination # conc[2].request.current_state.destination
    /\ conc[1].script # conc[2].script
    /\ conc[1].pc = "done" /\ conc[2].pc = "itinerary_agent"
    /\ conc[2].state.search_results # <<>>
    /\ conc[1].response.current_state.search_results = <<>>

====
